---- MODULE Spec2Model ----
(***************************************************************************)
(* Concurrent matrix multiplication of src/src/matrix.rs: a pool of        *)
(* NUM_THREADS worker threads, one mpsc channel per worker, one oneshot    *)
(* reply channel per output cell, and the calling thread dispatching the   *)
(* tasks and assembling the result.                                        *)
(***************************************************************************)
EXTENDS Integers, Sequences, FiniteSets, TLC

\* ------------------------------------------------------------------ sizes

\* const NUM_THREADS: usize = 4
NUM_THREADS == 4

\* Largest a.row of the inputs.
MaxRows == 2
\* Largest a.col and largest b.row of the inputs.
MaxInner == 3
\* Largest b.col of the inputs.
MaxCols == 3
\* Largest number of elements by which b's buffer exceeds b.row * b.col
\* (Matrix::new does not check the length of the buffer it is given).
MaxExtra == 1

\* First element of the left and of the right operand (the buffers of the
\* tests are 1, 2, 3, ... and 7, 8, 9, ...).
FirstA == 1
FirstB == 7

Workers == 0 .. (NUM_THREADS - 1)

VARIABLES
    caller,     \* "multiply": the function form is called; "mul": the operator a * b
    a, b,       \* the operands: [data, row, col]
    pc,         \* where the calling thread is inside multiply
    result,     \* how multiply ended: "none" (running), "ok", "err", "panic"
    opResult,   \* how a * b ended: "none", "value", "panic"
    senders,    \* the sender handles of the worker channels the dispatcher holds
    wstate,     \* per worker: "unborn", "idle", "computing", "closed", "failed"
    queue,      \* per worker: the messages in its mpsc channel
    cur,        \* per worker: the message it is computing (<<m>>) or <<>>
    chans,      \* the oneshot channels, in creation order
    receivers,  \* the retained receiving ends, as indices into chans
    data,       \* the result buffer
    i, j,       \* the dispatch loops' counters
    k,          \* how many receivers the collecting loop has consumed
    sent,       \* history: one record per sender.send of the dispatch loop
    writes,     \* history: per cell of data, the values assigned to it, in order
    replied     \* history: per oneshot channel, the sends on it: [by, out]

\* Display::fmt of a matrix
VARIABLES
    self,       \* the matrix being rendered
    text,       \* the text written to the formatter so far, character by character
    fi, fj,     \* the counters of fmt's loops
    fpc         \* where fmt is: "off", "open", "rows", "done"

\* The state of a multiply call.
mvars == << caller, a, b, pc, result, opResult, senders, wstate, queue, cur,
            chans, receivers, data, i, j, k, sent, writes, replied >>

\* The state of a rendering.
fvars == << self, text, fi, fj, fpc >>

\* The producer/consumer program of examples/thread1.rs
VARIABLES
    mainPc,     \* where main is: "off", "spawn", "consumer", "join", "done"
    started,    \* how many producer threads main has spawned
    mainTx,     \* main holds its sender handle tx
    prodTx,     \* per producer: it holds its clone of tx
    prod,       \* per producer: "unborn", "send", "sleep", "exited"
    nsent,      \* per producer: the messages it has sent
    channel,    \* the messages in the mpsc channel
    consumer,   \* the consumer thread: "unborn", "running", "exited"
    printed,    \* per producer index: the messages of it the consumer printed
    secret      \* the value main got from the join: <<v>>, or <<>> before

\* The state of the producer/consumer program.
dvars == << mainPc, started, mainTx, prodTx, prod, nsent, channel, consumer,
            printed, secret >>

vars == << mvars, fvars, dvars >>

\* ------------------------------------------------------ data and helpers

\* T::default() of the element type
Default == 0

\* Matrix::new(data, row, col): the fields are stored as given.
Matrix(d, r, c) == [data |-> d, row |-> r, col |-> c]

\* A buffer first, first + 1, ... of the given length.
Buffer(first, len) == [n \in 1 .. len |-> first + n - 1]

RECURSIVE SumTo(_, _)
SumTo(f, n) == IF n = 0 THEN 0 ELSE SumTo(f, n - 1) + f[n]

\* dot_product(a, b): an error when the lengths differ
DotFails(u, v) == Len(u) # Len(v)

\* dot_product(a, b): the sum of the element-wise products
DotProduct(u, v) == SumTo([n \in 1 .. Len(u) |-> u[n] * v[n]], Len(u))

\* &a.data[i * a.col..(i + 1) * a.col] panics when the range leaves the buffer
RowPanics(m, r) == (r + 1) * m.col > Len(m.data)

\* Vector::new(&a.data[i * a.col..(i + 1) * a.col])
RowOf(m, r) == SubSeq(m.data, r * m.col + 1, (r + 1) * m.col)

\* b.data[j..] panics when j is beyond the end of the buffer
ColPanics(m, c) == c > Len(m.data)

\* Mutant of ColOf: the column read as a contiguous run, without the stride.
ColOfContiguous(m, c) ==
    LET cnt == (Len(m.data) - c + m.col - 1) \div m.col
    IN  [n \in 1 .. cnt |-> m.data[c + n]]

\* b.data[j..].iter().step_by(b.col).copied().collect()
ColOf(m, c) ==
    LET cnt == (Len(m.data) - c + m.col - 1) \div m.col
    IN  [n \in 1 .. cnt |-> m.data[c + (n - 1) * m.col + 1]]

\* Mutant of IdxOf: the row is not scaled by the row length.
IdxOfUnscaled(r, c) == r + c

\* let idx = i * b.col + j
IdxOf(r, c) == r * b.col + c

\* Mutant of WorkerOf: the round robin starts one worker too far.
WorkerOfShifted(idx) == (idx + 1) % NUM_THREADS

\* senders[idx % NUM_THREADS]
WorkerOf(idx) == idx % NUM_THREADS

\* Mutant of Msg: every task is given the sender of the first reply channel.
MsgSharedReply(idx, row, col, tx) ==
    [input |-> [idx |-> idx, row |-> row, col |-> col], sender |-> 1]

\* MsgInput::new(idx, row, col) and Msg::new(input, tx)
Msg(idx, row, col, tx) ==
    [input |-> [idx |-> idx, row |-> row, col |-> col], sender |-> tx]

\* Mutant of MsgOutput: the index of the task is not copied into the result.
MsgOutputNoIdx(m, value) == [idx |-> 0, value |-> value]

\* MsgOutput { idx: msg.input.idx, value }
MsgOutput(m, value) == [idx |-> m.input.idx, value |-> value]

\* oneshot::channel(): nothing sent ("empty"), both ends alive.  The other
\* states: "full" (a value is waiting), "taken" (recv returned the value),
\* "closed" (the sender was dropped without a value), "dead" (a send found
\* the receiver dropped).
NewChan == [st |-> "empty", out |-> <<>>, rx |-> TRUE]

\* Dropping the oneshot senders of the messages ms without sending: the
\* channels that hold no value close.
DropMsgs(chs, ms) ==
    [c \in 1 .. Len(chs) |->
        IF /\ \E n \in 1 .. Len(ms) : ms[n].sender = c
           /\ chs[c].st = "empty"
        THEN [chs[c] EXCEPT !.st = "closed"]
        ELSE chs[c]]

\* Dropping the receivers not yet consumed (those after position n).
DropReceivers(chs, rs, n) ==
    [c \in 1 .. Len(chs) |->
        IF \E p \in (n + 1) .. Len(rs) : rs[p] = c
        THEN [chs[c] EXCEPT !.rx = FALSE]
        ELSE chs[c]]

\* ------------------------------------------------------------------ Init

\* const NUM_PRODUCERS: usize = 4
NUM_PRODUCERS == 4

\* Most times the producers' loops go round again, all producers together
\* (the loops have no bound of their own).
MaxRounds == 1

\* The value the consumer thread returns.
Secret == 42

Producers == 0 .. (NUM_PRODUCERS - 1)

\* The threads and the channel of the producer/consumer program before main
\* has done anything; main is at where.
DemoAt(where) ==
    /\ mainPc = where
    /\ started = 0
    /\ mainTx = (where # "off")
    /\ prodTx = [p \in Producers |-> FALSE]
    /\ prod = [p \in Producers |-> "unborn"]
    /\ nsent = [p \in Producers |-> 0]
    /\ channel = <<>>
    /\ consumer = "unborn"
    /\ printed = [p \in Producers |-> 0]
    /\ secret = <<>>

\* No rendering is going on.
FmtOff ==
    /\ self = Matrix(<<>>, 0, 0)
    /\ text = <<>>
    /\ fi = 0
    /\ fj = 0
    /\ fpc = "off"

\* The operands a caller can build with Matrix::new: every shape within the
\* bounds, a's buffer of length row * col, b's buffer of that length or longer.
Init ==
    /\ caller \in {"multiply", "mul"}
    /\ \E m \in 0 .. MaxRows, n \in 0 .. MaxInner :
          a = Matrix(Buffer(FirstA, m * n), m, n)
    /\ \E p \in 0 .. MaxInner, q \in 0 .. MaxCols, x \in 0 .. MaxExtra :
          b = Matrix(Buffer(FirstB, p * q + x), p, q)
    /\ pc = "check"
    /\ result = "none"
    /\ opResult = "none"
    /\ senders = {}
    /\ wstate = [w \in Workers |-> "unborn"]
    /\ queue = [w \in Workers |-> <<>>]
    /\ cur = [w \in Workers |-> <<>>]
    /\ chans = <<>>
    /\ receivers = <<>>
    /\ data = <<>>
    /\ i = 0
    /\ j = 0
    /\ k = 0
    /\ sent = <<>>
    /\ writes = <<>>
    /\ replied = <<>>
    /\ FmtOff
    /\ DemoAt("off")

\* ------------------------------------------------------ the calling thread

\* Mutant of ShapeMismatch: the outer dimensions are compared.
ShapeMismatchOuter == a.row # b.col

\* if a.col != b.row
ShapeMismatch == a.col # b.row

\* if a.col != b.row { return Err(..) }
CheckDims ==
    /\ pc = "check"
    /\ IF ShapeMismatch
       THEN /\ pc' = "done"
            /\ result' = "err"
       ELSE /\ pc' = "spawn"
            /\ UNCHANGED result
    /\ UNCHANGED << caller, a, b, opResult, senders, wstate, queue, cur, chans,
                    receivers, data, i, j, k, sent, writes >>
    /\ UNCHANGED replied
    /\ UNCHANGED << fvars, dvars >>

\* (0..NUM_THREADS).map(..): the range the pool is built from
PoolFull == Cardinality(senders) >= NUM_THREADS

\* One iteration of the map: mpsc::channel(), thread::spawn(..), tx kept.
Spawn ==
    /\ pc = "spawn"
    /\ ~PoolFull
    /\ LET w == Cardinality(senders)
       IN  /\ senders' = senders \cup {w}
           /\ wstate' = [wstate EXCEPT ![w] = "idle"]
    /\ UNCHANGED << caller, a, b, pc, result, opResult, queue, cur, chans,
                    receivers, data, i, j, k, sent, writes >>
    /\ UNCHANGED replied
    /\ UNCHANGED << fvars, dvars >>

\* let matrix_len = a.row * b.col
MatrixLen == a.row * b.col

\* .collect::<Vec<_>>(), then the result buffer and the receivers are set up.
Alloc ==
    /\ pc = "spawn"
    /\ PoolFull
    /\ data' = [n \in 1 .. MatrixLen |-> Default]
    /\ writes' = [n \in 1 .. MatrixLen |-> <<>>]
    /\ receivers' = <<>>
    /\ i' = 0
    /\ j' = 0
    /\ pc' = "dispatch"
    /\ UNCHANGED << caller, a, b, result, opResult, senders, wstate, queue,
                    cur, chans, k, sent >>
    /\ UNCHANGED replied
    /\ UNCHANGED << fvars, dvars >>

\* for i in 0..a.row { for j in 0..b.col { .. } } has cells left
MoreCells == i < a.row /\ b.col > 0

\* A send on a worker's channel fails once the worker has dropped its receiver.
Disconnected(w) == wstate[w] \in {"closed", "failed"}

\* One iteration of the inner loop whose row or column slice is out of range:
\* the calling thread panics and unwinds, dropping senders and receivers.
DispatchPanic ==
    /\ pc = "dispatch"
    /\ MoreCells
    /\ RowPanics(a, i) \/ ColPanics(b, j)
    /\ pc' = "done"
    /\ result' = "panic"
    /\ senders' = {}
    /\ chans' = DropReceivers(chans, receivers, 0)
    /\ UNCHANGED << caller, a, b, opResult, wstate, queue, cur, receivers,
                    data, i, j, k, sent, writes >>
    /\ UNCHANGED replied
    /\ UNCHANGED << fvars, dvars >>

\* Mutant of SendRejected: the rejected message is kept alive, not dropped.
SendRejectedKept(chs, msg) == chs

\* if let Err(e) = senders[..].send(msg) { eprintln!(..) }: the error holds
\* the message, which drops with it at the end of the block.
SendRejected(chs, msg) == DropMsgs(chs, <<msg>>)

\* One iteration of the inner loop: the task of cell (i, j) is built, sent
\* to its worker, and the receiving end of its reply channel is retained.
Dispatch ==
    /\ pc = "dispatch"
    /\ MoreCells
    /\ ~(RowPanics(a, i) \/ ColPanics(b, j))
    /\ LET idx == IdxOf(i, j)
           tx  == Len(chans) + 1
           msg == Msg(idx, RowOf(a, i), ColOf(b, j), tx)
           w   == WorkerOf(idx)
           ok  == ~Disconnected(w)
       IN  /\ IF ok
              THEN /\ queue' = [queue EXCEPT ![w] = Append(@, msg)]
                   /\ chans' = Append(chans, NewChan)
              ELSE /\ UNCHANGED queue
                   /\ chans' = SendRejected(Append(chans, NewChan), msg)
           /\ sent' = Append(sent, [idx |-> idx, worker |-> w, ok |-> ok])
           /\ replied' = Append(replied, <<>>)
           /\ receivers' = Append(receivers, tx)
    /\ IF j + 1 < b.col
       THEN /\ j' = j + 1
            /\ UNCHANGED i
       ELSE /\ j' = 0
            /\ i' = i + 1
    /\ UNCHANGED << caller, a, b, pc, result, opResult, senders, wstate, cur,
                    data, k, writes >>
    /\ UNCHANGED << fvars, dvars >>

\* The dispatch loops are over; the collecting loop starts.
DispatchEnd ==
    /\ pc = "dispatch"
    /\ ~MoreCells
    /\ pc' = "collect"
    /\ k' = 0
    /\ UNCHANGED << caller, a, b, result, opResult, senders, wstate, queue,
                    cur, chans, receivers, data, i, j, sent, writes >>
    /\ UNCHANGED replied
    /\ UNCHANGED << fvars, dvars >>

\* data[msg.idx] = msg.value
Store(d, out) == [d EXCEPT ![out.idx + 1] = out.value]

\* Mutant of Collect: the receiver is passed over without waiting for its value.
CollectNoWait ==
    /\ pc = "collect"
    /\ k < Len(receivers)
    /\ k' = k + 1
    /\ UNCHANGED << caller, a, b, pc, result, opResult, senders, wstate, queue,
                    cur, chans, receivers, data, i, j, sent, writes >>
    /\ UNCHANGED replied
    /\ UNCHANGED << fvars, dvars >>

\* One iteration of for rx in receivers: rx.recv() has a value to return.
Collect ==
    /\ pc = "collect"
    /\ k < Len(receivers)
    /\ LET rx == receivers[k + 1]
       IN  /\ chans[rx].st = "full"
           /\ LET out == chans[rx].out[1]
              IN  /\ data' = Store(data, out)
                  /\ writes' = [writes EXCEPT ![out.idx + 1] = Append(@, out.value)]
           /\ chans' = [chans EXCEPT ![rx] = [st |-> "taken", out |-> <<>>, rx |-> FALSE]]
    /\ k' = k + 1
    /\ UNCHANGED << caller, a, b, pc, result, opResult, senders, wstate, queue,
                    cur, receivers, i, j, sent >>
    /\ UNCHANGED replied
    /\ UNCHANGED << fvars, dvars >>

\* Mutant of CollectFail: the receive error is ignored and the loop goes on.
CollectSkip ==
    /\ pc = "collect"
    /\ k < Len(receivers)
    /\ chans[receivers[k + 1]].st = "closed"
    /\ k' = k + 1
    /\ UNCHANGED << caller, a, b, pc, result, opResult, senders, wstate, queue,
                    cur, chans, receivers, data, i, j, sent, writes >>
    /\ UNCHANGED replied
    /\ UNCHANGED << fvars, dvars >>

\* rx.recv()? on a reply channel whose sender was dropped without a value:
\* multiply returns the error; senders and the remaining receivers drop.
CollectFail ==
    /\ pc = "collect"
    /\ k < Len(receivers)
    /\ chans[receivers[k + 1]].st = "closed"
    /\ pc' = "done"
    /\ result' = "err"
    /\ senders' = {}
    /\ chans' = DropReceivers(chans, receivers, k)
    /\ UNCHANGED << caller, a, b, opResult, wstate, queue, cur, receivers,
                    data, i, j, k, sent, writes >>
    /\ UNCHANGED replied
    /\ UNCHANGED << fvars, dvars >>

\* Mutant of ReturnOk: the sender handles outlive the call.
ReturnOkHolding ==
    /\ pc = "collect"
    /\ k >= Len(receivers)
    /\ pc' = "done"
    /\ result' = "ok"
    /\ UNCHANGED << caller, a, b, opResult, senders, wstate, queue, cur, chans,
                    receivers, data, i, j, k, sent, writes >>
    /\ UNCHANGED replied
    /\ UNCHANGED << fvars, dvars >>

\* Ok(Matrix { data, row: a.row, col: b.col }); senders drops on return.
ReturnOk ==
    /\ pc = "collect"
    /\ k >= Len(receivers)
    /\ pc' = "done"
    /\ result' = "ok"
    /\ senders' = {}
    /\ UNCHANGED << caller, a, b, opResult, wstate, queue, cur, chans,
                    receivers, data, i, j, k, sent, writes >>
    /\ UNCHANGED replied
    /\ UNCHANGED << fvars, dvars >>

\* The matrix multiply returns on success.
Returned == Matrix(data, a.row, b.col)

\* multiply(&self, &rhs).unwrap_or_else(|e| panic!(..)); a panic inside
\* multiply unwinds through mul.
Unwrap(r) == IF r = "ok" THEN "value" ELSE "panic"

\* impl Mul for Matrix: fn mul(self, rhs: Self)
Mul ==
    /\ caller = "mul"
    /\ pc = "done"
    /\ opResult = "none"
    /\ opResult' = Unwrap(result)
    /\ UNCHANGED << caller, a, b, pc, result, senders, wstate, queue, cur,
                    chans, receivers, data, i, j, k, sent, writes >>
    /\ UNCHANGED replied
    /\ UNCHANGED << fvars, dvars >>

\* ------------------------------------------------------ the worker threads

\* for msg in rx: the next message of the worker's channel
WorkerRecv(w) ==
    /\ wstate[w] = "idle"
    /\ queue[w] # <<>>
    /\ cur' = [cur EXCEPT ![w] = <<Head(queue[w])>>]
    /\ queue' = [queue EXCEPT ![w] = Tail(@)]
    /\ wstate' = [wstate EXCEPT ![w] = "computing"]
    /\ UNCHANGED << caller, a, b, pc, result, opResult, senders, chans,
                    receivers, data, i, j, k, sent, writes >>
    /\ UNCHANGED replied
    /\ UNCHANGED << fvars, dvars >>

\* msg.sender.send(out): the value is stored unless the receiver is gone
\* (then the error is only printed, and the channel is dead at both ends).
ReplySend(chs, tx, out) ==
    IF chs[tx].rx
    THEN [chs EXCEPT ![tx] = [st |-> "full", out |-> <<out>>, rx |-> TRUE]]
    ELSE [chs EXCEPT ![tx].st = "dead"]

\* let value = dot_product(msg.input.row, msg.input.col)?; then the send of
\* the result, and the loop goes back to the channel.
WorkerSend(w) ==
    /\ wstate[w] = "computing"
    /\ LET msg == cur[w][1]
       IN  /\ ~DotFails(msg.input.row, msg.input.col)
           /\ LET out == MsgOutput(msg, DotProduct(msg.input.row, msg.input.col))
              IN  /\ chans' = ReplySend(chans, msg.sender, out)
                  /\ replied' = [replied EXCEPT ![msg.sender] =
                                    Append(@, [by |-> w, out |-> out])]
    /\ cur' = [cur EXCEPT ![w] = <<>>]
    /\ wstate' = [wstate EXCEPT ![w] = "idle"]
    /\ UNCHANGED << caller, a, b, pc, result, opResult, senders, queue,
                    receivers, data, i, j, k, sent, writes >>
    /\ UNCHANGED << fvars, dvars >>

\* Mutant of WorkerFail: the failed task alone is dropped and the loop goes on.
WorkerFailContinue(w) ==
    /\ wstate[w] = "computing"
    /\ LET msg == cur[w][1]
       IN  /\ DotFails(msg.input.row, msg.input.col)
           /\ chans' = DropMsgs(chans, <<msg>>)
    /\ cur' = [cur EXCEPT ![w] = <<>>]
    /\ wstate' = [wstate EXCEPT ![w] = "idle"]
    /\ UNCHANGED << caller, a, b, pc, result, opResult, senders, queue,
                    receivers, data, i, j, k, sent, writes >>
    /\ UNCHANGED replied
    /\ UNCHANGED << fvars, dvars >>

\* dot_product(..)? returns the error from the closure: the thread ends, the
\* message and the channel's receiver drop, and with them the queued messages.
WorkerFail(w) ==
    /\ wstate[w] = "computing"
    /\ LET msg == cur[w][1]
       IN  /\ DotFails(msg.input.row, msg.input.col)
           /\ chans' = DropMsgs(chans, <<msg>> \o queue[w])
    /\ cur' = [cur EXCEPT ![w] = <<>>]
    /\ queue' = [queue EXCEPT ![w] = <<>>]
    /\ wstate' = [wstate EXCEPT ![w] = "failed"]
    /\ UNCHANGED << caller, a, b, pc, result, opResult, senders, receivers,
                    data, i, j, k, sent, writes >>
    /\ UNCHANGED replied
    /\ UNCHANGED << fvars, dvars >>

\* Mutant of WorkerExit: the loop ends as soon as the channel is empty.
WorkerExitEarly(w) ==
    /\ wstate[w] = "idle"
    /\ queue[w] = <<>>
    /\ wstate' = [wstate EXCEPT ![w] = "closed"]
    /\ UNCHANGED << caller, a, b, pc, result, opResult, senders, queue, cur,
                    chans, receivers, data, i, j, k, sent, writes >>
    /\ UNCHANGED replied
    /\ UNCHANGED << fvars, dvars >>

\* for msg in rx ends: the channel is empty and every sender is dropped.
WorkerExit(w) ==
    /\ wstate[w] = "idle"
    /\ queue[w] = <<>>
    /\ w \notin senders
    /\ wstate' = [wstate EXCEPT ![w] = "closed"]
    /\ UNCHANGED << caller, a, b, pc, result, opResult, senders, queue, cur,
                    chans, receivers, data, i, j, k, sent, writes >>
    /\ UNCHANGED replied
    /\ UNCHANGED << fvars, dvars >>

\* ------------------------------------------------- Display for Matrix

\* No multiply call is going on.
MultiplyOff ==
    /\ caller = "multiply"
    /\ a = Matrix(<<>>, 0, 0)
    /\ b = Matrix(<<>>, 0, 0)
    /\ pc = "off"
    /\ result = "none"
    /\ opResult = "none"
    /\ senders = {}
    /\ wstate = [w \in Workers |-> "unborn"]
    /\ queue = [w \in Workers |-> <<>>]
    /\ cur = [w \in Workers |-> <<>>]
    /\ chans = <<>>
    /\ receivers = <<>>
    /\ data = <<>>
    /\ i = 0
    /\ j = 0
    /\ k = 0
    /\ sent = <<>>
    /\ writes = <<>>
    /\ replied = <<>>

\* The first elements of the rendered buffers: one, two and three digits.
FirstShown == {0, 9, 98}

\* The matrix test_matrix_display renders.
TestProduct == Matrix(<<58, 64, 139, 154>>, 2, 2)

\* The matrices rendered: every shape within the bounds, the buffer of
\* length row * col or longer, and the product of the test.
InitDisplay ==
    /\ MultiplyOff
    /\ DemoAt("off")
    /\ \/ \E r \in 0 .. MaxRows, c \in 0 .. MaxCols, x \in 0 .. MaxExtra,
             first \in FirstShown :
             self = Matrix(Buffer(first, r * c + x), r, c)
       \/ self = TestProduct
    /\ text = <<>>
    /\ fi = 0
    /\ fj = 0
    /\ fpc = "open"

DigitChars == <<"0", "1", "2", "3", "4", "5", "6", "7", "8", "9">>

\* write!(f, "{}", x) of a non-negative integer: its decimal digits
RECURSIVE Digits(_)
Digits(x) ==
    IF x < 10 THEN <<DigitChars[x + 1]>>
    ELSE Digits(x \div 10) \o <<DigitChars[(x % 10) + 1]>>

\* write!(f, "{{")?
FmtOpen ==
    /\ fpc = "open"
    /\ text' = text \o <<"{">>
    /\ fi' = 0
    /\ fj' = 0
    /\ fpc' = "rows"
    /\ UNCHANGED self
    /\ UNCHANGED << mvars, dvars >>

\* Mutant of ElemSep: a space after every element.
ElemSepAlways(m, c) == <<" ">>

\* if j != self.col - 1 { write!(f, " ")?; }
ElemSep(m, c) == IF c # m.col - 1 THEN <<" ">> ELSE <<>>

\* if i != self.row - 1 { write!(f, ", ")?; }
RowSep(m, r) == IF r # m.row - 1 THEN <<",", " ">> ELSE <<>>

\* One iteration of for j in 0..self.col: the element, then the space.
FmtElem ==
    /\ fpc = "rows"
    /\ fi < self.row
    /\ fj < self.col
    /\ text' = text \o Digits(self.data[fi * self.col + fj + 1]) \o ElemSep(self, fj)
    /\ fj' = fj + 1
    /\ UNCHANGED << self, fi, fpc >>
    /\ UNCHANGED << mvars, dvars >>

\* The end of one iteration of for i in 0..self.row: the comma and the space.
FmtRowEnd ==
    /\ fpc = "rows"
    /\ fi < self.row
    /\ fj >= self.col
    /\ text' = text \o RowSep(self, fi)
    /\ fi' = fi + 1
    /\ fj' = 0
    /\ UNCHANGED << self, fpc >>
    /\ UNCHANGED << mvars, dvars >>

\* write!(f, "}}")?; Ok(())
FmtClose ==
    /\ fpc = "rows"
    /\ fi >= self.row
    /\ text' = text \o <<"}">>
    /\ fpc' = "done"
    /\ UNCHANGED << self, fi, fj >>
    /\ UNCHANGED << mvars, dvars >>

NextDisplay ==
    \/ FmtOpen
    \/ FmtElem
    \/ FmtRowEnd
    \/ FmtClose

SpecDisplay == InitDisplay /\ [][NextDisplay]_vars

\* ------------------------------------------- examples/thread1.rs: main

\* let (tx, rx) = mpsc::channel(); main is about to spawn the producers.
InitDemo ==
    /\ MultiplyOff
    /\ FmtOff
    /\ DemoAt("spawn")

\* One iteration of for i in 0..NUM_PRODUCERS: tx.clone() and thread::spawn.
DemoSpawn ==
    /\ mainPc = "spawn"
    /\ started < NUM_PRODUCERS
    /\ prodTx' = [prodTx EXCEPT ![started] = TRUE]
    /\ prod' = [prod EXCEPT ![started] = "send"]
    /\ started' = started + 1
    /\ UNCHANGED << mainPc, mainTx, nsent, channel, consumer, printed, secret >>
    /\ UNCHANGED << mvars, fvars >>

\* Mutant of DemoDrop: main keeps its sender handle.
DemoNoDrop ==
    /\ mainPc = "spawn"
    /\ started >= NUM_PRODUCERS
    /\ mainPc' = "consumer"
    /\ UNCHANGED << started, mainTx, prodTx, prod, nsent, channel, consumer,
                    printed, secret >>
    /\ UNCHANGED << mvars, fvars >>

\* drop(tx)
DemoDrop ==
    /\ mainPc = "spawn"
    /\ started >= NUM_PRODUCERS
    /\ mainTx' = FALSE
    /\ mainPc' = "consumer"
    /\ UNCHANGED << started, prodTx, prod, nsent, channel, consumer, printed,
                    secret >>
    /\ UNCHANGED << mvars, fvars >>

\* let consumer = thread::spawn(move || { for msg in rx { .. } .. })
DemoSpawnConsumer ==
    /\ mainPc = "consumer"
    /\ consumer' = "running"
    /\ mainPc' = "join"
    /\ UNCHANGED << started, mainTx, prodTx, prod, nsent, channel, printed,
                    secret >>
    /\ UNCHANGED << mvars, fvars >>

\* let secret = consumer.join()..: the value the consumer thread returned
DemoJoin ==
    /\ mainPc = "join"
    /\ consumer = "exited"
    /\ secret' = <<Secret>>
    /\ mainPc' = "done"
    /\ UNCHANGED << started, mainTx, prodTx, prod, nsent, channel, consumer,
                    printed >>
    /\ UNCHANGED << mvars, fvars >>

\* Message::new(index, value); the random value is read by no step of the
\* program and is left out.
Message(index) == [index |-> index]

\* The receiver of the channel lives until the consumer thread ends.
ReceiverAlive == consumer # "exited"

\* tx.send(Message::new(index, value as usize))?
ProducerSend(p) ==
    /\ prod[p] = "send"
    /\ IF ReceiverAlive
       THEN /\ channel' = Append(channel, Message(p))
            /\ nsent' = [nsent EXCEPT ![p] = @ + 1]
            /\ prod' = [prod EXCEPT ![p] = "sleep"]
            /\ UNCHANGED prodTx
       ELSE /\ prod' = [prod EXCEPT ![p] = "exited"]
            /\ prodTx' = [prodTx EXCEPT ![p] = FALSE]
            /\ UNCHANGED << channel, nsent >>
    /\ UNCHANGED << mainPc, started, mainTx, consumer, printed, secret >>
    /\ UNCHANGED << mvars, fvars >>

\* The times producer p has gone round its loop again.
RoundsOf(p) ==
    IF prod[p] = "send" THEN nsent[p]
    ELSE IF nsent[p] > 0 THEN nsent[p] - 1 ELSE 0

\* The times the producers have gone round their loops again.
Rounds == SumTo([n \in 1 .. NUM_PRODUCERS |-> RoundsOf(n - 1)], NUM_PRODUCERS)

\* thread::sleep(..); rand::random::<u8>() % 5 != 0: the loop goes round.
ProducerAgain(p) ==
    /\ prod[p] = "sleep"
    /\ Rounds < MaxRounds
    /\ prod' = [prod EXCEPT ![p] = "send"]
    /\ UNCHANGED << mainPc, started, mainTx, prodTx, nsent, channel, consumer,
                    printed, secret >>
    /\ UNCHANGED << mvars, fvars >>

\* thread::sleep(..); rand::random::<u8>() % 5 == 0: break, and tx drops.
ProducerExit(p) ==
    /\ prod[p] = "sleep"
    /\ prod' = [prod EXCEPT ![p] = "exited"]
    /\ prodTx' = [prodTx EXCEPT ![p] = FALSE]
    /\ UNCHANGED << mainPc, started, mainTx, nsent, channel, consumer, printed,
                    secret >>
    /\ UNCHANGED << mvars, fvars >>

\* for msg in rx { println!("consumer: {:?}", msg); }
ConsumerRecv ==
    /\ consumer = "running"
    /\ channel # <<>>
    /\ printed' = [printed EXCEPT ![Head(channel).index] = @ + 1]
    /\ channel' = Tail(channel)
    /\ UNCHANGED << mainPc, started, mainTx, prodTx, prod, nsent, consumer,
                    secret >>
    /\ UNCHANGED << mvars, fvars >>

\* Every sender handle of the channel is dropped.
SendersGone == ~mainTx /\ \A p \in Producers : ~prodTx[p]

\* for msg in rx ends; println!("consumer exit"); 42
ConsumerExit ==
    /\ consumer = "running"
    /\ channel = <<>>
    /\ SendersGone
    /\ consumer' = "exited"
    /\ UNCHANGED << mainPc, started, mainTx, prodTx, prod, nsent, channel,
                    printed, secret >>
    /\ UNCHANGED << mvars, fvars >>

\* The steps of main.
DemoMain ==
    \/ DemoSpawn
    \/ DemoDrop
    \/ DemoSpawnConsumer
    \/ DemoJoin

\* The steps of producer p.
Producer(p) ==
    \/ ProducerSend(p)
    \/ ProducerAgain(p)
    \/ ProducerExit(p)

\* The steps of the consumer thread.
Consumer ==
    \/ ConsumerRecv
    \/ ConsumerExit

NextDemo ==
    \/ DemoSpawn
    \/ DemoDrop
    \/ DemoSpawnConsumer
    \/ DemoJoin
    \/ \E p \in Producers : ProducerSend(p)
    \/ \E p \in Producers : ProducerAgain(p)
    \/ \E p \in Producers : ProducerExit(p)
    \/ ConsumerRecv
    \/ ConsumerExit

\* The threads are operating-system threads: one that can take a step and
\* stays able to is eventually scheduled.
FairSpecDemo ==
    /\ InitDemo
    /\ [][NextDemo]_vars
    /\ WF_vars(DemoMain)
    /\ WF_vars(Consumer)
    /\ \A p \in Producers : WF_vars(Producer(p))

\* ------------------------------------------------------------ specification

Next ==
    \/ CheckDims
    \/ Spawn
    \/ Alloc
    \/ DispatchPanic
    \/ Dispatch
    \/ DispatchEnd
    \/ Collect
    \/ CollectFail
    \/ ReturnOk
    \/ Mul
    \/ \E w \in Workers : WorkerRecv(w)
    \/ \E w \in Workers : WorkerSend(w)
    \/ \E w \in Workers : WorkerFail(w)
    \/ \E w \in Workers : WorkerExit(w)

Spec == Init /\ [][Next]_vars

\* The steps of the calling thread.
Caller ==
    \/ CheckDims
    \/ Spawn
    \/ Alloc
    \/ DispatchPanic
    \/ Dispatch
    \/ DispatchEnd
    \/ Collect
    \/ CollectFail
    \/ ReturnOk
    \/ Mul

\* The steps of worker thread w.
Worker(w) ==
    \/ WorkerRecv(w)
    \/ WorkerSend(w)
    \/ WorkerFail(w)
    \/ WorkerExit(w)

\* The threads are operating-system threads: one that can take a step and
\* stays able to is eventually scheduled.
FairSpec ==
    /\ Init
    /\ [][Next]_vars
    /\ WF_vars(Caller)
    /\ \A w \in Workers : WF_vars(Worker(w))

\* ------------------------------------------------------------------ claims

\* The operands keep Matrix::new's contract: each buffer has row * col elements.
WellFormed ==
    /\ Len(a.data) = a.row * a.col
    /\ Len(b.data) = b.row * b.col

\* C1: for operands whose buffers have row * col elements, multiply returns
\* an error exactly when a.col differs from b.row, and otherwise returns
\* successfully a matrix of a.row rows and b.col columns.
C1_ErrorIffMismatch ==
    (WellFormed /\ pc = "done") =>
        /\ result = "err" <=> a.col # b.row
        /\ a.col = b.row =>
              /\ result = "ok"
              /\ Returned.row = a.row
              /\ Returned.col = b.col
              /\ Len(Returned.data) = a.row * b.col

\* sum over n of A[r][n] * B[n][c], read directly from the two buffers
CellSum(r, c) ==
    SumTo([n \in 1 .. a.col |->
              a.data[r * a.col + n] * b.data[(n - 1) * b.col + c + 1]], a.col)

\* The product, cell by cell in row-major order.
Product ==
    [n \in 1 .. (a.row * b.col) |-> CellSum((n - 1) \div b.col, (n - 1) % b.col)]

\* The operands of test_matrix_multiply.
TestOperands ==
    /\ a = Matrix(<<1, 2, 3, 4, 5, 6>>, 2, 3)
    /\ b = Matrix(<<7, 8, 9, 10, 11, 12>>, 3, 2)

\* C2: whatever the interleaving of the workers and the calling thread, a
\* successful multiply returns the product: the cell at index i * b.col + j
\* is the sum over n of A[i][n] * B[n][j]; the operands of the test always
\* give 58, 64, 139, 154.
C2_Deterministic ==
    result = "ok" =>
        /\ Returned = Matrix(Product, a.row, b.col)
        /\ TestOperands => data = <<58, 64, 139, 154>>

\* The test's product was returned.
C2_Witness ==
    /\ result = "ok"
    /\ TestOperands
    /\ data = <<58, 64, 139, 154>>

\* C3: a matrix returned on success is fully populated: every cell was
\* assigned a value received from its reply channel, no task was rejected by
\* a worker channel and no reply channel was left unread.
C3_FullyPopulated ==
    result = "ok" =>
        /\ Len(data) = a.row * b.col
        /\ \A n \in 1 .. (a.row * b.col) :
              /\ writes[n] # <<>>
              /\ data[n] = writes[n][Len(writes[n])]
        /\ Len(sent) = a.row * b.col
        /\ \A x \in 1 .. Len(sent) : sent[x].ok
        /\ \A c \in 1 .. Len(chans) : chans[c].st = "taken"

\* A matrix of six cells was returned.
C3_Witness ==
    /\ result = "ok"
    /\ Len(data) = 6
    /\ \A n \in 1 .. 6 : writes[n] # <<>>

\* Some send of the dispatch loop was rejected by its worker channel.
SendFailed == \E x \in 1 .. Len(sent) : ~sent[x].ok

\* C4 as claimed: after a failed send, multiply still returns a matrix, in
\* which the cell of the rejected task holds the default value.
C4_SendFailureLeavesCellUnset ==
    (pc = "done" /\ result # "panic") =>
        \A x \in 1 .. Len(sent) :
            ~sent[x].ok => /\ result = "ok"
                           /\ data[sent[x].idx + 1] = Default

\* C4 as amended: a failed send is only logged and the dispatch goes on, but
\* the rejected task drops with its reply sender, so its reply channel is
\* closed without a value and multiply never returns a matrix: when it
\* returns, it returns the error.
C4_SendFailureFailsCall ==
    /\ \A x \in 1 .. Len(sent) :
          ~sent[x].ok => /\ chans[receivers[x]].st = "closed"
                         /\ result # "ok"
    /\ (SendFailed /\ pc = "done" /\ result # "panic") => result = "err"
    /\ (SendFailed /\ pc = "collect") => Len(sent) = a.row * b.col

\* multiply returned after a send of the dispatch loop was rejected.
C4_Witness ==
    /\ pc = "done"
    /\ result = "err"
    /\ SendFailed

\* C5: when a reply channel was closed without a value (its sender dropped)
\* and multiply returns, it returns the error, never a matrix.
C5_ClosedReplyIsError ==
    (/\ pc = "done"
     /\ result # "panic"
     /\ \E c \in 1 .. Len(chans) : chans[c].st = "closed") => result = "err"

\* multiply returned the error after a worker's dot product failed and the
\* reply channel of its task closed without a value.
C5_Witness ==
    /\ pc = "done"
    /\ result = "err"
    /\ \E w \in Workers : wstate[w] = "failed"
    /\ ~SendFailed
    /\ \E c \in 1 .. Len(chans) : chans[c].st = "closed"

\* C6: when a.col differs from b.row no worker thread is spawned, no worker
\* channel and no reply channel is created, no task is built or sent, and
\* multiply ends with the error.
C6_NoWorkOnMismatch ==
    a.col # b.row =>
        /\ \A w \in Workers :
              wstate[w] = "unborn" /\ queue[w] = <<>> /\ cur[w] = <<>>
        /\ senders = {}
        /\ chans = <<>>
        /\ receivers = <<>>
        /\ sent = <<>>
        /\ pc = "done" => result = "err"

\* multiply returned the error for operands of mismatched shapes.
C6_Witness ==
    /\ a.col # b.row
    /\ a.row = b.col
    /\ pc = "done"
    /\ result = "err"

\* The destination indices of the tasks built so far.
SentIdx == {sent[x].idx : x \in 1 .. Len(sent)}

\* C7: for operands whose buffers have row * col elements, a call that
\* passed the shape check has built exactly a.row * b.col tasks when its
\* dispatch is over, and every index of 0 .. a.row * b.col - 1 is the
\* destination of exactly one of them.
C7_OneTaskPerCell ==
    (WellFormed /\ a.col = b.row /\ pc \in {"collect", "done"}) =>
        /\ Len(sent) = a.row * b.col
        /\ SentIdx = 0 .. (a.row * b.col - 1)

\* The workers that were spawned.
Spawned == {w \in Workers : wstate[w] # "unborn"}

\* C8: once the pool is built, exactly NUM_THREADS workers were spawned,
\* whatever the number of tasks; while the call dispatches and collects, the
\* dispatcher holds all their sender handles and, for operands whose buffers
\* have row * col elements, none has exited; and the task of destination
\* index idx is sent to worker idx mod NUM_THREADS and is in no other
\* worker's channel or hands.
C8_FixedPool ==
    /\ pc \in {"dispatch", "collect", "done"} /\ a.col = b.row =>
          Cardinality(Spawned) = NUM_THREADS
    /\ pc \in {"dispatch", "collect"} =>
          /\ senders = Workers
          /\ WellFormed => \A w \in Workers : wstate[w] \in {"idle", "computing"}
    /\ \A x \in 1 .. Len(sent) : sent[x].worker = sent[x].idx % NUM_THREADS
    /\ \A w \in Workers :
          \A n \in 1 .. Len(queue[w] \o cur[w]) :
              (queue[w] \o cur[w])[n].input.idx % NUM_THREADS = w

\* A call of one task, and a call of more tasks than workers, with the pool
\* of NUM_THREADS workers.
C8_Witness ==
    /\ pc = "collect"
    /\ Cardinality(Spawned) = NUM_THREADS
    /\ Len(sent) = 6
    /\ \E w \in Workers : Len(queue[w]) = 2

\* The same with a single task.
C8_WitnessOneTask ==
    /\ pc = "collect"
    /\ Cardinality(Spawned) = NUM_THREADS
    /\ Len(sent) = 1

\* C9: every cell of the result buffer is assigned at most once, and in a
\* successful call exactly once; the assignments are those of the collecting
\* loop of the calling thread.
C9_WrittenOnce ==
    /\ \A n \in 1 .. Len(writes) : Len(writes[n]) <= 1
    /\ result = "ok" => \A n \in 1 .. (a.row * b.col) : Len(writes[n]) = 1
    /\ pc \in {"check", "spawn", "dispatch"} =>
          \A n \in 1 .. Len(writes) : writes[n] = <<>>

\* A successful call of six cells, each assigned once.
C9_Witness ==
    /\ result = "ok"
    /\ Len(writes) = 6
    /\ \A n \in 1 .. 6 : Len(writes[n]) = 1

\* C10: for operands whose buffers have row * col elements, a * b returns
\* the matrix of multiply when multiply succeeds, and panics if and only if
\* multiply returns an error.
C10_OperatorForm ==
    (WellFormed /\ caller = "mul" /\ opResult # "none") =>
        /\ opResult = "value" <=> result = "ok"
        /\ opResult = "panic" <=> result = "err"

\* Column c of b read element by element: B.data[c], B.data[c + cols], ...,
\* B.data[c + (rows - 1) * cols].
ColumnOfB(c) == [n \in 1 .. b.row |-> b.data[c + (n - 1) * b.col + 1]]

\* C11: for a right operand whose buffer has row * col elements and every
\* column j < b.col the dispatch loop comes to, the column vector is built
\* and is B.data[j], B.data[j + cols], ..., of length b.row; column 1 of the
\* 3 x 2 buffer 7 .. 12 is 8, 10, 12.
C11_ColumnExtraction ==
    (WellFormed /\ pc = "dispatch" /\ MoreCells) =>
        /\ ~ColPanics(b, j)
        /\ ColOf(b, j) = ColumnOfB(j)
        /\ Len(ColOf(b, j)) = b.row
        /\ (TestOperands /\ j = 1) => ColOf(b, j) = <<8, 10, 12>>

\* The same for the columns whose slice does not panic.
C11_BuiltColumns ==
    (WellFormed /\ pc = "dispatch" /\ MoreCells /\ ~ColPanics(b, j)) =>
        /\ ColOf(b, j) = ColumnOfB(j)
        /\ (TestOperands /\ j = 1) => ColOf(b, j) = <<8, 10, 12>>

\* The strings ss joined by sep.
RECURSIVE Join(_, _)
Join(ss, sep) ==
    IF Len(ss) = 0 THEN <<>>
    ELSE IF Len(ss) = 1 THEN ss[1]
    ELSE ss[1] \o sep \o Join(Tail(ss), sep)

\* Row r of m rendered: its elements in order, joined by one space.
RowText(m, r) ==
    Join([c \in 1 .. m.col |-> Digits(m.data[(r - 1) * m.col + c])], <<" ">>)

\* "{" followed by the rows joined by ", " followed by "}".
Rendering(m) ==
    <<"{">> \o Join([r \in 1 .. m.row |-> RowText(m, r)], <<",", " ">>) \o <<"}">>

\* "{58 64, 139 154}"
TestText ==
    << "{", "5", "8", " ", "6", "4", ",", " ",
       "1", "3", "9", " ", "1", "5", "4", "}" >>

\* C12: the text fmt writes for a matrix is "{", its rows joined by ", ",
\* and "}", each row its elements in order joined by one space, with no
\* trailing space or separator; [[58, 64], [139, 154]] gives
\* "{58 64, 139 154}".
C12_Display ==
    fpc = "done" =>
        /\ text = Rendering(self)
        /\ self = TestProduct => text = TestText

\* The product of the test was rendered.
C12_Witness ==
    /\ fpc = "done"
    /\ self = TestProduct
    /\ text = TestText

\* The workers whose thread has ended.
Exited == {w \in Workers : wstate[w] \in {"closed", "failed"}}

\* C13 as claimed: a worker thread has exited only with every sender handle
\* of its channel dropped and its channel drained.
C13_ExitOnlyWhenClosed ==
    \A w \in Exited : w \notin senders /\ queue[w] = <<>>

\* C13 as amended: a worker's loop ends when its channel is closed (every
\* sender handle dropped, the queue drained) or when the dot product of a
\* task fails, and then the thread ends while the dispatcher may still hold
\* the sender handle; a worker whose loop ended by closure left no message
\* behind, and for operands whose buffers have row * col elements no worker
\* has exited while a sender handle to its channel exists.
C13_ExitWhenClosedOrFailed ==
    /\ \A w \in Workers :
          wstate[w] = "closed" =>
              w \notin senders /\ queue[w] = <<>> /\ cur[w] = <<>>
    /\ \A w \in Workers :
          wstate[w] = "failed" =>
              \E c \in 1 .. Len(chans) :
                  /\ sent[c].worker = w
                  /\ sent[c].ok
                  /\ chans[c].st = "closed"
                  /\ replied[c] = <<>>
    /\ WellFormed => \A w \in Exited : w \notin senders /\ wstate[w] = "closed"

\* One worker ended on a failed dot product while the dispatcher held its
\* sender handle, another had not ended.
C13_Witness ==
    /\ pc = "collect"
    /\ \E w \in Workers : wstate[w] = "failed" /\ w \in senders
    /\ \E w \in Workers : wstate[w] = "idle"

\* A worker's loop ended by closure after the call returned successfully.
C13_WitnessClosed ==
    /\ result = "ok"
    /\ Len(sent) = 6
    /\ \A w \in Workers : wstate[w] = "closed"

\* The row and the column the task of destination index idx is built from.
TaskRow(idx) == RowOf(a, idx \div b.col)
TaskCol(idx) == ColOf(b, idx % b.col)

\* C14 as claimed: a failing dot product costs only its own task: the worker
\* goes on, and the reply channel of a task a worker accepted closes without
\* a value only when that task's own dot product fails.
C14_FailureConfined ==
    /\ \A w \in Workers : wstate[w] # "failed"
    /\ \A c \in 1 .. Len(chans) :
          (chans[c].st = "closed" /\ sent[c].ok) =>
              DotFails(TaskRow(sent[c].idx), TaskCol(sent[c].idx))

\* C14 as amended: when a worker's dot product fails, the worker sends no
\* value for that task and the task's reply channel closes without a value,
\* so multiply cannot succeed; the failure is not confined to the task: the
\* worker thread ends, the tasks still queued on its channel are dropped
\* with their reply channels closed without a value, and no reply channel of
\* a task it accepted closes without a value in any other way.
C14_FailureEndsWorker ==
    /\ \A w \in Workers :
          wstate[w] = "failed" =>
              /\ queue[w] = <<>>
              /\ cur[w] = <<>>
              /\ result # "ok"
              /\ \A c \in 1 .. Len(chans) :
                    sent[c].worker = w => chans[c].st # "empty"
              /\ \E c \in 1 .. Len(chans) :
                    /\ sent[c].worker = w
                    /\ chans[c].st = "closed"
                    /\ DotFails(TaskRow(sent[c].idx), TaskCol(sent[c].idx))
    /\ \A c \in 1 .. Len(chans) :
          chans[c].st = "closed" =>
              /\ replied[c] = <<>>
              /\ wstate[sent[c].worker] = "failed"

\* A worker ended on a failed dot product, and the reply channel of a queued
\* task whose own dot product would not fail closed without a value.
C14_Witness ==
    \E c \in 1 .. Len(chans) :
        /\ wstate[sent[c].worker] = "failed"
        /\ sent[c].ok
        /\ chans[c].st = "closed"
        /\ ~DotFails(TaskRow(sent[c].idx), TaskCol(sent[c].idx))

\* Every worker thread that was spawned has ended and left no message behind;
\* for operands whose buffers have row * col elements each ended by seeing
\* its channel closed.
WorkersGone ==
    \A w \in Workers :
        /\ wstate[w] \in {"unborn", "closed", "failed"}
        /\ WellFormed => wstate[w] # "failed"
        /\ queue[w] = <<>>
        /\ cur[w] = <<>>

\* C15: the dispatcher holds the sender handles of all worker channels while
\* it dispatches and has released them, after all tasks were sent, when
\* multiply has returned (success or error); and once multiply has ended
\* every worker thread eventually drains its channel and exits: none stays
\* blocked on its channel forever.
C15_WorkersExit ==
    /\ [](pc = "dispatch" => senders = Workers)
    /\ [](result \in {"ok", "err"} =>
             /\ senders = {}
             /\ a.col = b.row => Len(sent) = a.row * b.col)
    /\ (pc = "done") ~> WorkersGone

\* multiply returned the error while a worker was still computing, and all
\* workers have ended since.
C15_Witness ==
    /\ result = "err"
    /\ Len(sent) = 6
    /\ \E w \in Workers : wstate[w] = "closed"
    /\ WorkersGone

\* C17 as claimed: under fair scheduling every call with shape-compatible
\* operands whose buffers have row * col elements eventually returns.
C17_Returns ==
    (pc = "check" /\ WellFormed /\ a.col = b.row) ~> (result \in {"ok", "err"})

\* Under fair scheduling the calling thread never blocks forever: every call
\* ends, by returning or by the panic of the dispatch loop.
C17_NoDeadlock == <>(pc = "done")

C18_ResultIndexIsPosition ==
    \A x \in 1 .. Len(receivers) :
        LET c == receivers[x]
        IN  /\ \A n \in 1 .. Len(replied[c]) :
                  /\ replied[c][n].out.idx = x - 1
                  /\ replied[c][n].out.idx < a.row * b.col
            /\ chans[c].st = "full" => chans[c].out[1].idx = x - 1

\* The result of the last task is waiting on the sixth receiver while the
\* first receiver has none yet.
C18_Witness ==
    /\ pc = "collect"
    /\ Len(receivers) = 6
    /\ chans[receivers[6]].st = "full"
    /\ chans[receivers[6]].out[1].idx = 5
    /\ chans[receivers[1]].st = "empty"

\* C19: when multiply has returned success every dispatched task has been
\* processed to the end: every worker channel is empty, no worker is
\* computing or holds a message, every reply was sent and received, and every
\* worker is idle at its channel or has exited.
C19_QuiescentOnSuccess ==
    result = "ok" =>
        /\ \A w \in Workers :
              /\ queue[w] = <<>>
              /\ cur[w] = <<>>
              /\ wstate[w] \in {"idle", "closed"}
        /\ \A c \in 1 .. Len(chans) : chans[c].st = "taken" /\ sent[c].ok

\* multiply has just returned success for six tasks; no worker has exited yet.
C19_Witness ==
    /\ result = "ok"
    /\ Len(sent) = 6
    /\ \A w \in Workers : wstate[w] = "idle" /\ queue[w] = <<>>

\* Every producer thread has exited.
ProducersExited == \A p \in Producers : prod[p] = "exited"

\* C20: the consumer thread has left its receive loop only after all
\* NUM_PRODUCERS producers exited and main dropped its own sender handle, and
\* then it has printed every message any producer sent; main gets a value
\* from the join only then, and it is 42; and once every producer has exited
\* the join completes with 42.
C20_ConsumerOutlivesProducers ==
    /\ [](consumer = "exited" =>
             /\ ProducersExited
             /\ ~mainTx
             /\ channel = <<>>
             /\ \A p \in Producers : printed[p] = nsent[p] /\ nsent[p] >= 1)
    /\ [](secret # <<>> => consumer = "exited" /\ secret = <<42>>)
    /\ ProducersExited ~> (mainPc = "done" /\ secret = <<42>>)

\* main has joined the consumer, which printed the messages of all the
\* producers, one of which sent more than once.
C20_Witness ==
    /\ mainPc = "done"
    /\ secret = <<42>>
    /\ ProducersExited
    /\ \A p \in Producers : printed[p] = nsent[p] /\ nsent[p] >= 1
    /\ \E p \in Producers : printed[p] >= 2

====
